---------------------------- MODULE Spec2Model ----------------------------
(***************************************************************************)
(* The durable extraction pipeline of py-scripts:                          *)
(*   - gmail_job_alerts/urls_db.py       the SQLite-backed URL queue       *)
(*   - job_details_scraper/retry_utils.py  the exponential-backoff wrapper *)
(*   - job_details_scraper/job_url_processor.py  the orchestration loop    *)
(*   - job_details_scraper/linkedin_scraper.py   the fetch of one item     *)
(*                                                                         *)
(* The specifications share the variables:                                 *)
(*   SpecQueue    a client calling write_batch / read_urls / delete_urls   *)
(*   SpecDrain    a client draining the queue with read_urls + delete_urls *)
(*   SpecRetry    one wrapper made by exponential_backoff_retry, any func  *)
(*   Spec         process_all_job_urls with the signal handler interleaved *)
(*   SpecLive     the same without storage fault, every step completing    *)
(*   SpecShared   the same while another process enqueues URLs             *)
(*   SpecAgain    the same, called again after it has ended                *)
(*   SpecExtract  the record get_job_details_from_url builds from one page *)
(*   SpecCriteria the job criteria _extract_job_criteria reads off a list  *)
(*   SpecTxn      a writing and a reading process on one database file     *)
(*                                                                         *)
(* Time is counted in half seconds: 0.5 s is 1, 2 s is 4, 60 s is 120.     *)
(* A URL is the sequence of its path segments after ".../jobs/view/",      *)
(* split at "/": segment 0 is the empty string a trailing "/" leaves,      *)
(* so <<7, 0>> is ".../jobs/view/7/" and <<7>> is ".../jobs/view/7".       *)
(***************************************************************************)
EXTENDS Integers, Sequences, FiniteSets, TLC

VARIABLES
    db,                  \* table urls: its rows, in rowid order
    call,                \* SpecQueue: the last finished queue call
    pc,                  \* position of the running client / wrapper / loop
    urls,                \* process_all_job_urls: local `urls` (the peeked batch)
    limit,               \* SpecDrain: the limit the client reads with
    visits,              \* SpecDrain: how often each URL was handed out
    enqueued,            \* SpecDrain: the URLs in the queue at the start
    max_retries,         \* decorator argument
    base_delay,          \* decorator argument
    max_delay,           \* decorator argument
    exceptions_to_retry, \* decorator argument: a set of exception classes
    retries,             \* wrapper: local `retries`
    calls,               \* history: invocations of func in this wrapper call
    n_retryable,         \* history: invocations of func that raised a class to retry
    last_outcome,        \* history: what the last invocation of func did
    sleeps,              \* history: the time.sleep calls of this wrapper call
    exc,                 \* the exception the wrapper call raised, if it raised
    retval,              \* the value the wrapper call returned, if it returned
    stop_requested,      \* job_url_processor._stop_requested
    idx,                 \* position of `for url in urls`
    batch_size,          \* process_all_job_urls argument
    html_files,          \* job ids with a raw artifact <job_id>.html
    txt_files,           \* job ids with a derived artifact <job_id>.txt
    results,             \* history: what the last call for each URL returned
    attempted,           \* history: URLs whose fetch was invoked at least once
    succeeded,           \* history: URLs fetched, extracted and persisted in full
    removed,             \* history: URLs a delete_urls of the loop took out of db
    n_peeks,             \* history: non-empty batches peeked by the loop
    last_peek,           \* history: the last non-empty batch peeked by the loop
    n_deletes,           \* history: delete_urls calls made by the loop
    last_delete,         \* history: arguments of the loop's last delete_urls call
    fetch,               \* history: how the last get_job_details_from_url of this call ended
    steps,               \* history: the statements that invocation completed
    doc,                 \* SpecExtract: the parsed response body (soup)
    data,                \* SpecExtract: the record built from it (`data`)
    faults,              \* storage faults injected so far
    txn,                 \* SpecTxn: the open transaction of the writing process
    reader,              \* SpecTxn: the read_urls call of the reading process
    discovered,          \* SpecShared history: the write_batch calls of the discovery process
    invocation           \* SpecAgain history: calls of process_all_job_urls so far

qvars == <<db, call>>
dvars == <<limit, visits, enqueued>>
cvars == <<max_retries, base_delay, max_delay, exceptions_to_retry>>
xvars == <<txn, reader, discovered, invocation>>
wvars == <<retries, calls, n_retryable, last_outcome, sleeps, exc, retval>>
lvars == <<stop_requested, idx, batch_size, html_files, txt_files, results,
           attempted, succeeded, removed, n_peeks, last_peek, n_deletes,
           last_delete, fetch, steps, doc, data>>
vars == <<db, call, pc, urls, limit, visits, enqueued, max_retries, base_delay,
          max_delay, exceptions_to_retry, retries, calls, n_retryable, last_outcome,
          sleeps, exc,
          retval, stop_requested, idx, batch_size, html_files, txt_files, results,
          attempted, succeeded, removed, n_peeks, last_peek, n_deletes,
          last_delete, fetch, steps, doc, data, faults, txn, reader, discovered,
          invocation>>

\* No queue call made yet; no exception raised.
NoCall ==
    [op |-> "none", args |-> <<>>, lim |-> 0, fault |-> "none", raised |-> FALSE,
     ret |-> <<>>, logged |-> <<>>, pre |-> <<>>]

\* An exception is its class and the invocation of func that raised it
\* (0: raised by the wrapper itself); a returned value is the invocation
\* of func that produced it.
NoException == [kind |-> "None", call |-> 0]

NoValue == [kind |-> "None", call |-> 0]

\* No response body parsed, no record built.
NoDoc == [kind |-> "none"]

\* No transaction open; no read_urls call running.
NoTxn == [op |-> "none", args |-> <<>>, done |-> 0, rows |-> <<>>]

\* The first call of process_all_job_urls in the process: no signal came
\* before it.
FirstCall == [n |-> 1, stopped |-> FALSE]

NoReader == [lim |-> 0, rows |-> <<>>, n |-> 0, open |-> FALSE, mid |-> FALSE]

NoData == [kind |-> "none"]

-----------------------------------------------------------------------------
(* Bounds of the model *)

NumUrls == 2
MaxBatchLen == 2
MaxLimit == 4
MaxFaults == 1
MaxDiscoveries == 1
MaxInvocations == 2

URLS == { <<n, 0>> : n \in 1..NumUrls }

Min(a, b) == IF a <= b THEN a ELSE b

Range(s) == { s[k] : k \in 1..Len(s) }

\* Sequences over S of length at most n.
SeqsUpTo(S, n) == UNION { [1..k -> S] : k \in 0..n }

\* Number of positions of s holding x.
Count(s, x) == Cardinality({ k \in 1..Len(s) : s[k] = x })

NoDuplicates(s) == \A j, k \in 1..Len(s) : s[j] = s[k] => j = k

-----------------------------------------------------------------------------
(* urls_db.py: the statements, on the rows of table urls *)

\* INSERT without OR IGNORE on a table whose url column is not a key.
InsertAlways(rows, u) == Append(rows, u)

\* INSERT OR IGNORE INTO urls (url) VALUES (?), url TEXT PRIMARY KEY
InsertOrIgnore(rows, u) ==
    IF \E k \in 1..Len(rows) : rows[k] = u THEN rows ELSE Append(rows, u)

RECURSIVE ExecuteManyInsert(_, _)
ExecuteManyInsert(rows, us) ==
    IF us = <<>> THEN rows
    ELSE ExecuteManyInsert(InsertOrIgnore(rows, Head(us)), Tail(us))

\* DELETE FROM urls, the statement without its WHERE clause.
DeleteEveryRow(rows, u) == <<>>

\* DELETE FROM urls WHERE url = ?
DeleteWhere(rows, u) == SelectSeq(rows, LAMBDA r : r # u)

\* A single execute in place of executemany: only the first parameter row runs.
ExecuteFirstDeleteOnly(rows, us) ==
    IF us = <<>> THEN rows ELSE DeleteWhere(rows, Head(us))

\* DELETE FROM urls LIMIT n in place of the statements by URL: as many rows
\* as URLs were given go, from the head of the table.
ExecuteDeleteFirstRows(rows, us) == SubSeq(rows, Len(us) + 1, Len(rows))

\* executemany whose statements are never committed.
ExecuteNothing(rows, us) == rows

RECURSIVE ExecuteManyDelete(_, _)
ExecuteManyDelete(rows, us) ==
    IF us = <<>> THEN rows
    ELSE ExecuteManyDelete(DeleteWhere(rows, Head(us)), Tail(us))

\* SELECT url FROM urls, the statement without its LIMIT clause.
LimitIgnored(rows, lim) == Len(rows)

\* LIMIT ? : a negative limit is no limit.
LimitCount(rows, lim) == IF lim < 0 THEN Len(rows) ELSE Min(lim, Len(rows))

\* SELECT url FROM urls LIMIT ? : the statement has no ORDER BY, so the
\* result is any LimitCount rows of the table, in any order.
SelectLimit(rows, lim) ==
    LET n == LimitCount(rows, lim)
    IN  { [k \in 1..n |-> rows[p[k]]] :
            p \in { q \in [1..n -> 1..Len(rows)] :
                      \A j, k \in 1..n : q[j] = q[k] => j = k } }

\* _log_failures: one line per URL of the call.
LogFailures(action, us) == [k \in 1..Len(us) |-> <<action, us[k]>>]

\* Storage faults: "init" is an sqlite3.Error raised inside _init_db (connect,
\* PRAGMA, CREATE TABLE, commit), "exec" one raised by executemany / execute /
\* commit inside the try block.  The connection is closed without a commit,
\* so nothing of the batch is applied.
Faults == {"none", "init", "exec"}

\* write_batch(urls): rows after the call, whether it raised, what it logged.
WriteBatchResult(rows, us, fault) ==
    IF us = <<>> THEN [rows |-> rows, raised |-> FALSE, logged |-> <<>>]
    ELSE IF fault = "init" THEN [rows |-> rows, raised |-> TRUE, logged |-> <<>>]
    ELSE IF fault = "exec"
         THEN [rows |-> rows, raised |-> FALSE, logged |-> LogFailures("INSERT", us)]
    ELSE [rows |-> ExecuteManyInsert(rows, us), raised |-> FALSE, logged |-> <<>>]

\* delete_urls committing after each statement: a failure leaves the first
\* DELETE applied.
DeleteUrlsPartial(rows, us, fault) ==
    IF us = <<>> THEN [rows |-> rows, raised |-> FALSE, logged |-> <<>>]
    ELSE IF fault = "init" THEN [rows |-> rows, raised |-> TRUE, logged |-> <<>>]
    ELSE IF fault = "exec"
         THEN [rows |-> ExecuteFirstDeleteOnly(rows, us), raised |-> FALSE,
               logged |-> LogFailures("DELETE", us)]
    ELSE [rows |-> ExecuteManyDelete(rows, us), raised |-> FALSE, logged |-> <<>>]

\* delete_urls: rows after the call, whether it raised, what it logged.
DeleteUrlsResult(rows, us, fault) ==
    IF us = <<>> THEN [rows |-> rows, raised |-> FALSE, logged |-> <<>>]
    ELSE IF fault = "init" THEN [rows |-> rows, raised |-> TRUE, logged |-> <<>>]
    ELSE IF fault = "exec"
         THEN [rows |-> rows, raised |-> FALSE, logged |-> LogFailures("DELETE", us)]
    ELSE [rows |-> ExecuteManyDelete(rows, us), raised |-> FALSE, logged |-> <<>>]

\* list(read_urls(limit)): the possible results; a fault raises.
ReadUrlsResults(rows, lim, fault) ==
    IF fault # "none" THEN { [ret |-> <<>>, raised |-> TRUE] }
    ELSE { [ret |-> r, raised |-> FALSE] : r \in SelectLimit(rows, lim) }

-----------------------------------------------------------------------------
(* Values of the variables a specification does not use *)

DrainIdle == limit = 0 /\ visits = <<>> /\ enqueued = {}

OthersIdle ==
    /\ txn = NoTxn
    /\ reader = NoReader
    /\ discovered = <<>>
    /\ invocation = FirstCall

ConfigIdle ==
    /\ max_retries = 0
    /\ base_delay = 0
    /\ max_delay = 0
    /\ exceptions_to_retry = {}

WrapperIdle ==
    /\ retries = 0
    /\ calls = 0
    /\ n_retryable = 0
    /\ last_outcome = "none"
    /\ sleeps = <<>>
    /\ exc = NoException
    /\ retval = NoValue

LoopIdle ==
    /\ stop_requested = FALSE
    /\ idx = 0
    /\ batch_size = 0
    /\ html_files = {}
    /\ txt_files = {}
    /\ results = [u \in URLS |-> "none"]
    /\ attempted = {}
    /\ succeeded = {}
    /\ removed = {}
    /\ n_peeks = 0
    /\ last_peek = <<>>
    /\ n_deletes = 0
    /\ last_delete = <<>>
    /\ fetch = "none"
    /\ steps = <<>>
    /\ doc = NoDoc
    /\ data = NoData

-----------------------------------------------------------------------------
(* SpecQueue: a client of urls_db calling the three operations in any order *)

QueueInit ==
    /\ db = <<>>
    /\ call = NoCall
    /\ pc = "client"
    /\ urls = <<>>
    /\ faults = 0
    /\ DrainIdle /\ ConfigIdle /\ WrapperIdle /\ LoopIdle /\ OthersIdle

QueueCall(op, args, lim, fault, raised, ret, logged) ==
    [op |-> op, args |-> args, lim |-> lim, fault |-> fault, raised |-> raised,
     ret |-> ret, logged |-> logged, pre |-> db]

WriteBatch(us, fault) ==
    LET r == WriteBatchResult(db, us, fault)
    IN  /\ db' = r.rows
        /\ call' = QueueCall("write_batch", us, 0, fault, r.raised, <<>>, r.logged)
        /\ UNCHANGED <<pc, urls, faults, dvars, cvars, xvars, wvars, lvars>>

ReadUrls(lim, fault) ==
    \E r \in ReadUrlsResults(db, lim, fault) :
        /\ call' = QueueCall("read_urls", <<>>, lim, fault, r.raised, r.ret, <<>>)
        /\ UNCHANGED <<db, pc, urls, faults, dvars, cvars, xvars, wvars, lvars>>

DeleteUrls(us, fault) ==
    LET r == DeleteUrlsResult(db, us, fault)
    IN  /\ db' = r.rows
        /\ call' = QueueCall("delete_urls", us, 0, fault, r.raised, <<>>, r.logged)
        /\ UNCHANGED <<pc, urls, faults, dvars, cvars, xvars, wvars, lvars>>

QueueNext ==
    \/ \E us \in SeqsUpTo(URLS, MaxBatchLen), f \in Faults : WriteBatch(us, f)
    \/ \E lim \in 0..MaxLimit, f \in Faults : ReadUrls(lim, f)
    \/ \E us \in SeqsUpTo(URLS, MaxBatchLen), f \in Faults : DeleteUrls(us, f)

SpecQueue == QueueInit /\ [][QueueNext]_vars

\* C1: each URL is stored at most once, whatever calls were made; a
\* write_batch without storage fault leaves exactly one record for each of
\* its URLs, also for a URL given twice in the batch or already stored, and
\* does not raise.
C1_UrlStoredOnce ==
    /\ NoDuplicates(db)
    /\ (call.op = "write_batch" /\ call.fault = "none") =>
          /\ ~call.raised
          /\ \A u \in Range(call.args) : Count(db, u) = 1

\* C1 witness: a batch naming twice a URL that was already stored.
C1_Witness ==
    /\ call.op = "write_batch"
    /\ call.fault = "none"
    /\ \E u \in Range(call.args) :
          Count(call.args, u) = 2 /\ Count(call.pre, u) = 1 /\ Count(db, u) = 1

\* The action name write_batch / delete_urls pass to _log_failures.
LogAction(op) == IF op = "write_batch" THEN "INSERT" ELSE "DELETE"

\* C14: a write_batch or delete_urls call hit by a storage failure, be it
\* while the connection is opened and configured or while the statements
\* run and commit, returns normally and has logged the failure once for
\* each URL of the call.
C14_WriteFailureNeverRaised ==
    (call.op \in {"write_batch", "delete_urls"} /\ call.fault # "none"
        /\ call.args # <<>>) =>
        /\ ~call.raised
        /\ call.logged = LogFailures(LogAction(call.op), call.args)

\* C22: a read_urls(limit) call with limit >= 1 that returns gives
\* min(limit, number of records) URLs, no URL twice, each of them a record of
\* the queue, and leaves the records as they were; what it returns is empty
\* exactly when the queue has no record.
C22_ReadUrlsPeeks ==
    (call.op = "read_urls" /\ ~call.raised /\ call.lim >= 1) =>
        /\ Len(call.ret) = Min(call.lim, Len(call.pre))
        /\ NoDuplicates(call.ret)
        /\ Range(call.ret) \subseteq Range(db)
        /\ db = call.pre
        /\ (call.ret = <<>>) <=> (db = <<>>)

\* C22 witness: a limit below the number of records, so that the call returns
\* a proper part of the queue.
C22_Witness ==
    /\ call.op = "read_urls"
    /\ ~call.raised
    /\ call.lim >= 1
    /\ call.lim < Len(db)
    /\ Len(call.ret) = call.lim

\* The records that remain when every record named in us is taken away.
Without(rows, us) == SelectSeq(rows, LAMBDA r : r \notin Range(us))

\* C23: a delete_urls call without storage fault does not raise and leaves
\* exactly the records it does not name, in their order; naming a URL that
\* is not stored, or naming a URL twice, changes nothing more.
C23_DeleteUrlsExact ==
    (call.op = "delete_urls" /\ call.fault = "none") =>
        /\ ~call.raised
        /\ call.logged = <<>>
        /\ db = Without(call.pre, call.args)
        /\ (Range(call.args) \cap Range(call.pre) = {}) => db = call.pre

\* C23 witness: a call naming twice a stored URL while another record is
\* stored; the URL is gone and the other record is left.
C23_Witness ==
    /\ call.op = "delete_urls"
    /\ call.fault = "none"
    /\ \E u \in Range(call.args) :
          /\ Count(call.args, u) = 2
          /\ Count(call.pre, u) = 1
          /\ db # <<>>
          /\ u \notin Range(db)

-----------------------------------------------------------------------------
(* SpecDrain: one client fills the queue, then repeats                     *)
(*     urls = list(read_urls(limit)); delete_urls of all of urls          *)
(* until read_urls returns nothing.  No other writer, no storage fault.    *)

DrainInit ==
    /\ db = <<>>
    /\ call = NoCall
    /\ pc = "fill"
    /\ urls = <<>>
    /\ limit \in 1..MaxLimit
    /\ visits = [u \in URLS |-> 0]
    /\ enqueued = {}
    /\ faults = 0
    /\ ConfigIdle /\ WrapperIdle /\ LoopIdle /\ OthersIdle

DrainEnqueue(us) ==
    /\ pc = "fill"
    /\ us # <<>>
    /\ db' = WriteBatchResult(db, us, "none").rows
    /\ enqueued' = enqueued \cup Range(us)
    /\ UNCHANGED <<call, pc, urls, limit, visits, faults, cvars, xvars, wvars, lvars>>

\* urls = list(read_urls(limit))
DrainRead ==
    /\ pc \in {"fill", "read"}
    /\ \E r \in ReadUrlsResults(db, limit, "none") :
          /\ urls' = r.ret
          /\ pc' = IF r.ret = <<>> THEN "drained" ELSE "visit"
    /\ idx' = 1
    /\ UNCHANGED <<db, call, limit, visits, enqueued, faults, cvars, xvars, wvars,
                   stop_requested, batch_size, html_files, txt_files, results, fetch, steps,
                   doc, data,
                   attempted, succeeded, removed, n_peeks, last_peek,
                   n_deletes, last_delete>>

\* for url in urls: the client's work on one URL
DrainVisit ==
    /\ pc = "visit"
    /\ idx <= Len(urls)
    /\ visits' = [visits EXCEPT ![urls[idx]] = @ + 1]
    /\ idx' = idx + 1
    /\ UNCHANGED <<db, call, pc, urls, limit, enqueued, faults, cvars, xvars, wvars,
                   stop_requested, batch_size, html_files, txt_files, results, fetch, steps,
                   doc, data,
                   attempted, succeeded, removed, n_peeks, last_peek,
                   n_deletes, last_delete>>

\* delete_urls of the batch, after its last URL
DrainDelete ==
    /\ pc = "visit"
    /\ idx > Len(urls)
    /\ db' = DeleteUrlsResult(db, urls, "none").rows
    /\ pc' = "read"
    /\ UNCHANGED <<call, urls, limit, visits, enqueued, faults, cvars, xvars, wvars, lvars>>

DrainNext ==
    \/ \E us \in SeqsUpTo(URLS, MaxBatchLen) : DrainEnqueue(us)
    \/ DrainRead
    \/ DrainVisit
    \/ DrainDelete

SpecDrain == DrainInit /\ [][DrainNext]_vars

\* C5: drain completeness: no URL is handed out twice while draining, and
\* once read_urls has returned nothing every enqueued URL was handed out
\* exactly once (and no other URL was), for every limit >= 1.
C5_DrainVisitsOnce ==
    /\ \A u \in URLS : visits[u] <= 1
    /\ pc = "drained" =>
          /\ db = <<>>
          /\ \A u \in URLS : visits[u] = IF u \in enqueued THEN 1 ELSE 0

\* C5 witness: a queue of several URLs drained in more than one batch.
C5_Witness ==
    /\ pc = "drained"
    /\ Cardinality(enqueued) >= 2
    /\ limit < Cardinality(enqueued)
    /\ \A u \in enqueued : visits[u] = 1

-----------------------------------------------------------------------------
(* retry_utils.py: exponential_backoff_retry *)

\* The exception classes involved and their base classes:
\* requests.HTTPError and requests.ConnectionError derive from
\* requests.RequestException, which derives from OSError.
ParentClass(c) ==
    CASE c = "HTTPError" -> "RequestException"
      [] c = "ConnectionError" -> "RequestException"
      [] c = "RequestException" -> "OSError"
      [] c = "OSError" -> "Exception"
      [] c = "ValueError" -> "Exception"
      [] c = "RuntimeError" -> "Exception"
      [] OTHER -> "BaseException"

RECURSIVE IsSubclass(_, _)
IsSubclass(c, d) ==
    IF c = d THEN TRUE
    ELSE IF c = "BaseException" THEN FALSE
    ELSE IsSubclass(ParentClass(c), d)

\* A bare `except Exception`: every exception is retried.
CaughtAlways(kind, classes) == IsSubclass(kind, "Exception")

\* except exceptions_to_retry as e
Caught(kind, classes) == \E d \in classes : IsSubclass(kind, d)

\* `while retries <= max_retries`
LoopTestInclusive(r, m) == r <= m

\* while retries < max_retries
LoopTest(r, m) == r < m

\* `if retries > max_retries`
ExhaustedLate(r, m) == r > m

\* `if retries >= max_retries - 1`
ExhaustedEarly(r, m) == r >= m - 1

\* if retries >= max_retries
Exhausted(r, m) == r >= m

\* jitter = random.uniform(0, 0.5): at most one half second
JitterMax == 1

\* backoff_delay = base_delay * (2 ** (retries - 1))
BackoffDelay(base, r) == base * (2 ^ (r - 1))

\* backoff_delay + jitter without the cap
CurrentDelayUncapped(base, r, jitter, maxd) == BackoffDelay(base, r) + jitter

\* current_delay = min(backoff_delay + jitter, max_delay)
CurrentDelay(base, r, jitter, maxd) == Min(BackoffDelay(base, r) + jitter, maxd)

\* wrapper(*args, **kwargs) is entered: retries = 0
WrapperEnter ==
    /\ retries' = 0
    /\ calls' = 0
    /\ n_retryable' = 0
    /\ last_outcome' = "none"
    /\ sleeps' = <<>>
    /\ exc' = NoException
    /\ retval' = NoValue
    /\ pc' = "w_test"

\* The loop test; leaving the loop raises RuntimeError.
WrapperTest ==
    /\ pc = "w_test"
    /\ IF LoopTest(retries, max_retries)
       THEN pc' = "w_call" /\ exc' = exc
       ELSE pc' = "w_raised" /\ exc' = [kind |-> "RuntimeError", call |-> 0]
    /\ UNCHANGED <<retries, calls, n_retryable, last_outcome, sleeps, retval>>

\* One pass of the try statement: func is invoked and returns or raises
\* `outcome`; `jitter` is the value random.uniform draws if it is called.
WrapperTry(outcome, jitter) ==
    /\ pc = "w_call"
    /\ calls' = calls + 1
    /\ last_outcome' = outcome
    /\ n_retryable' =
          IF outcome # "return" /\ \E d \in exceptions_to_retry : IsSubclass(outcome, d)
          THEN n_retryable + 1 ELSE n_retryable
    /\ IF outcome = "return"
       THEN /\ retval' = [kind |-> "value", call |-> calls + 1]
            /\ pc' = "w_returned"
            /\ UNCHANGED <<retries, sleeps, exc>>
       ELSE IF Caught(outcome, exceptions_to_retry)
       THEN /\ retries' = retries + 1
            /\ IF Exhausted(retries + 1, max_retries)
               THEN /\ exc' = [kind |-> outcome, call |-> calls + 1]
                    /\ pc' = "w_raised"
                    /\ UNCHANGED sleeps
               ELSE /\ sleeps' = Append(sleeps,
                          [delay |-> CurrentDelay(base_delay, retries + 1, jitter, max_delay),
                           jitter |-> jitter])
                    /\ pc' = "w_sleep"
                    /\ UNCHANGED exc
            /\ UNCHANGED retval
       ELSE /\ exc' = [kind |-> outcome, call |-> calls + 1]
            /\ pc' = "w_raised"
            /\ UNCHANGED <<retries, sleeps, retval>>

\* time.sleep(current_delay) returns
WrapperWake ==
    /\ pc = "w_sleep"
    /\ pc' = "w_test"
    /\ UNCHANGED wvars

-----------------------------------------------------------------------------
(* SpecRetry: one wrapper, decorated with any arguments, around any func *)

MaxRetriesBound == 4

\* @exponential_backoff_retry(max_retries=3, base_delay=2,
\*                            exceptions_to_retry=(requests.HTTPError,))
ScraperMaxRetries == 3
ScraperBaseDelay == 4

\* 0.5 s, 1 s and 2 s
BaseDelays == {1, 2, 4}

\* 1.5 s, 2 s and the default of 60 s
DefaultMaxDelay == 120
MaxDelays == {3, 4, DefaultMaxDelay}

RetrySets == { {"HTTPError"}, {"OSError"}, {"ValueError"}, {"Exception"} }

FuncOutcomes == {"return", "HTTPError", "ValueError"}

RetryInit ==
    /\ max_retries \in 0..MaxRetriesBound
    /\ base_delay \in BaseDelays
    /\ max_delay \in MaxDelays
    /\ exceptions_to_retry \in RetrySets
    /\ pc = "w_idle"
    /\ WrapperIdle
    /\ db = <<>> /\ call = NoCall /\ urls = <<>> /\ faults = 0
    /\ DrainIdle /\ LoopIdle /\ OthersIdle

RetryInvoke ==
    /\ pc \in {"w_idle", "w_returned", "w_raised"}
    /\ WrapperEnter
    /\ UNCHANGED <<qvars, urls, faults, dvars, cvars, xvars, lvars>>

RetryTest ==
    /\ WrapperTest
    /\ UNCHANGED <<qvars, urls, faults, dvars, cvars, xvars, lvars>>

RetryTry ==
    /\ \E o \in FuncOutcomes, j \in 0..JitterMax : WrapperTry(o, j)
    /\ UNCHANGED <<qvars, urls, faults, dvars, cvars, xvars, lvars>>

RetryWake ==
    /\ WrapperWake
    /\ UNCHANGED <<qvars, urls, faults, dvars, cvars, xvars, lvars>>

RetryNext == RetryInvoke \/ RetryTest \/ RetryTry \/ RetryWake

SpecRetry == RetryInit /\ [][RetryNext]_vars

\* The last invocation of func raised an exception of a class that
\* exceptions_to_retry does not match.
LastNotRetryable ==
    /\ last_outcome \notin {"none", "return"}
    /\ ~ \E d \in exceptions_to_retry : IsSubclass(last_outcome, d)

\* C6: retry bound.  While every invocation of func has raised a class to
\* retry, func is invoked at most max_retries times; with max_retries >= 1 the
\* call ends exactly when func was invoked max_retries times, after
\* max_retries - 1 sleeps, by raising the exception of the last invocation.
C6_RetryBound ==
    (max_retries >= 1 /\ n_retryable = calls) =>
        /\ calls <= max_retries
        /\ pc # "w_returned"
        /\ pc = "w_raised" =>
              /\ calls = max_retries
              /\ Len(sleeps) = max_retries - 1
              /\ exc = [kind |-> last_outcome, call |-> calls]
        /\ (calls = max_retries) => pc = "w_raised"

\* C6 witness: max_retries = 3, three failing invocations, two sleeps.
C6_Witness ==
    /\ max_retries = 3
    /\ pc = "w_raised"
    /\ n_retryable = 3
    /\ calls = 3
    /\ Len(sleeps) = 2
    /\ exc.call = 3

\* C7: retry success path.  After k < max_retries failures of a class to
\* retry the wrapper goes on to invoke func again; when func then returns,
\* the wrapper returns that value after exactly k + 1 invocations and k
\* sleeps and makes no further attempt.
C7_RetrySuccess ==
    /\ (n_retryable = calls /\ calls < max_retries) =>
          pc \in {"w_idle", "w_test", "w_call", "w_sleep"}
    /\ (last_outcome = "return") =>
          /\ pc = "w_returned"
          /\ calls = n_retryable + 1
          /\ Len(sleeps) = n_retryable
          /\ n_retryable < max_retries
          /\ retval = [kind |-> "value", call |-> calls]
          /\ exc = NoException
    /\ (pc = "w_returned") => last_outcome = "return"

\* C7 witness: max_retries = 4, two failures, success at the third invocation.
C7_Witness ==
    /\ max_retries = 4
    /\ pc = "w_returned"
    /\ n_retryable = 2
    /\ calls = 3
    /\ retval.call = 3

\* C8: non-retryable short-circuit.  When func raises a class that
\* exceptions_to_retry does not match, the wrapper raises that exception at
\* once: no sleep follows it and func is not invoked again (one invocation
\* when it is the first attempt), also after earlier retried failures.
C8_NonRetryable ==
    LastNotRetryable =>
        /\ pc = "w_raised"
        /\ exc = [kind |-> last_outcome, call |-> calls]
        /\ calls = n_retryable + 1
        /\ Len(sleeps) = n_retryable
        /\ retries = n_retryable

\* C8 witness: a retried failure, then a class that is not retried.
C8_Witness ==
    /\ LastNotRetryable
    /\ pc = "w_raised"
    /\ calls = 2
    /\ n_retryable = 1
    /\ Len(sleeps) = 1

\* C9: with max_retries = 3, base_delay = 2 s and the default max_delay, a
\* func that keeps raising a class to retry is retried with three delays
\* of 2 s, 4 s and 8 s (plus jitter) before the error reaches the caller.
C9_ThreeDelays ==
    (/\ max_retries = ScraperMaxRetries
     /\ base_delay = ScraperBaseDelay
     /\ max_delay = DefaultMaxDelay
     /\ pc = "w_raised"
     /\ calls >= 1
     /\ n_retryable = calls) =>
        /\ Len(sleeps) = 3
        /\ \A k \in 1..3 : sleeps[k].delay - sleeps[k].jitter = ScraperBaseDelay * (2 ^ (k - 1))

\* C10: the k-th sleep of a call, made after the k-th failed attempt with
\* k < max_retries, lasts min(base_delay * 2^(k-1) + jitter, max_delay) with
\* jitter between 0 and 0.5 s, so no sleep is longer than max_delay.
C10_DelayFormula ==
    /\ Len(sleeps) = (IF pc = "w_raised" /\ exc.call > 0 /\ ~LastNotRetryable
                      THEN n_retryable - 1 ELSE n_retryable)
    /\ \A k \in 1..Len(sleeps) :
          /\ k < max_retries
          /\ sleeps[k].jitter \in 0..JitterMax
          /\ sleeps[k].delay =
                Min(base_delay * (2 ^ (k - 1)) + sleeps[k].jitter, max_delay)
          /\ sleeps[k].delay <= max_delay

\* C10 witness: a first sleep below the cap and a later one cut to max_delay.
C10_Witness ==
    /\ Len(sleeps) >= 2
    /\ sleeps[1].delay < max_delay
    /\ \E k \in 2..Len(sleeps) :
          /\ sleeps[k].delay = max_delay
          /\ base_delay * (2 ^ (k - 1)) + sleeps[k].jitter > max_delay

\* The wrapper call is over.
Ended == pc \in {"w_returned", "w_raised"}

\* The RuntimeError of the wrapper's last line, raised with func not called.
OwnRuntimeError == [kind |-> "RuntimeError", call |-> 0]

\* C30: a wrapper call ends with the wrapper's own RuntimeError exactly when
\* max_retries <= 0, and then func was not invoked; with max_retries >= 1
\* func was invoked and the call ends either returning what the last
\* invocation returned or raising what the last invocation raised.
C30_RuntimeErrorOnlyWithoutRetries ==
    Ended =>
        /\ (pc = "w_raised" /\ exc = OwnRuntimeError) <=> (max_retries <= 0)
        /\ (max_retries <= 0) => calls = 0
        /\ (max_retries >= 1) =>
              /\ calls >= 1
              /\ IF pc = "w_returned"
                 THEN /\ last_outcome = "return"
                      /\ retval = [kind |-> "value", call |-> calls]
                      /\ exc = NoException
                 ELSE /\ last_outcome # "return"
                      /\ exc = [kind |-> last_outcome, call |-> calls]
                      /\ retval = NoValue

\* C30 witness: a wrapper decorated with max_retries = 0 was called and
\* raised its RuntimeError without invoking func.
C30_Witness ==
    /\ pc = "w_raised"
    /\ max_retries = 0
    /\ calls = 0
    /\ exc = OwnRuntimeError

-----------------------------------------------------------------------------
(* job_url_processor.py and linkedin_scraper.get_job_details_from_url *)

MaxBatchSize == 2

\* url.rstrip("/")
RECURSIVE RStripSlash(_)
RStripSlash(u) ==
    IF Len(u) > 0 /\ u[Len(u)] = 0 THEN RStripSlash(SubSeq(u, 1, Len(u) - 1)) ELSE u

\* job_id taken as url.split("/")[-1], without the rstrip.
JobIdNoStrip(u) == IF u = <<>> THEN 0 ELSE u[Len(u)]

\* job_id = url.rstrip("/").split("/")[-1]
JobId(u) == LET t == RStripSlash(u) IN IF t = <<>> THEN 0 ELSE t[Len(t)]

\* What one invocation of get_job_details_from_url can do:
\*   ok               status 200, both artifacts written, the record returned
\*   not_found        status 404, the sentinel returned
\*   forbidden        status 403 (or 410, 429, ...): raise_for_status raises
\*   server_error     status 500 (or 503, ...): raise_for_status raises
\*   connection_error requests.get raises (no connection, timeout)
\*   html_write_error status 200, mkdir / writing <job_id>.html raises OSError
\*   txt_write_error  status 200, writing <job_id>.txt raises OSError
FetchOutcomes ==
    {"ok", "not_found", "forbidden", "server_error", "connection_error",
     "html_write_error", "txt_write_error"}

\* r.status_code; 0 when requests.get raised and there is no response.
StatusCode(o) ==
    CASE o = "not_found" -> 404
      [] o = "forbidden" -> 403
      [] o = "server_error" -> 500
      [] o = "connection_error" -> 0
      [] OTHER -> 200

\* The 404 test placed after the write of the raw HTML.
StepsNotFoundAfterWrite(o) ==
    IF o = "not_found" THEN <<"get", "write_html">> ELSE <<"get">>

\* The statements one invocation completes, in order, before it returns
\* or raises: requests.get, raise_for_status, the write of the raw HTML,
\* the extraction (BeautifulSoup and the _extract_ helpers), the write of
\* the text dump.
Steps(o) ==
    CASE o = "connection_error" -> <<>>
      [] o = "not_found" -> <<"get">>
      [] o \in {"forbidden", "server_error"} -> <<"get">>
      [] o = "html_write_error" -> <<"get", "raise_for_status">>
      [] o = "txt_write_error" ->
            <<"get", "raise_for_status", "write_html", "extract">>
      [] OTHER -> <<"get", "raise_for_status", "write_html", "extract", "write_txt">>

\* The invocation returns at line 274 (sentinel) or line 356 (record).
Returns(o) == o \in {"ok", "not_found"}

\* What the wrapper sees of it: a return, or the class raised.
FuncOutcome(o) ==
    IF Returns(o) THEN "return"
    ELSE IF o \in {"forbidden", "server_error"} THEN "HTTPError"
    ELSE IF o = "connection_error" THEN "ConnectionError"
    ELSE "OSError"

\* `if _stop_requested: break` removed from the for loop.
BreakNever(flag) == FALSE

\* if _stop_requested: break
BreakRequested(flag) == flag

\* delete_urls called with the URLs already handled only.
DeleteArgsHandled(us, i) == SubSeq(us, 1, i - 1)

\* delete_urls is called with all of urls, wherever the for loop stopped.
DeleteArgs(us, i) == us

\* The queue the loop starts with: any set of URLs.  Nothing the loop does
\* depends on the order of the rows (SelectLimit returns any rows in any
\* order, DeleteWhere keeps the order of the others), so one order per set
\* is enough.
IncreasingIds(q) == \A j, k \in 1..Len(q) : j < k => JobId(q[j]) < JobId(q[k])

Init ==
    /\ db \in { q \in SeqsUpTo(URLS, NumUrls) : IncreasingIds(q) }
    /\ call = NoCall
    /\ pc = "head"
    /\ urls = <<>>
    /\ faults = 0
    /\ limit = 0
    /\ visits = <<>>
    /\ enqueued = Range(db)
    /\ max_retries = ScraperMaxRetries
    /\ base_delay = ScraperBaseDelay
    /\ max_delay = DefaultMaxDelay
    /\ exceptions_to_retry = {"HTTPError"}
    /\ WrapperIdle
    /\ stop_requested = FALSE
    /\ idx = 0
    /\ batch_size \in 1..MaxBatchSize
    /\ html_files = {}
    /\ txt_files = {}
    /\ results = [u \in URLS |-> "none"]
    /\ attempted = {}
    /\ succeeded = {}
    /\ removed = {}
    /\ n_peeks = 0
    /\ last_peek = <<>>
    /\ n_deletes = 0
    /\ last_delete = <<>>
    /\ fetch = "none"
    /\ steps = <<>>
    /\ doc = NoDoc
    /\ data = NoData
    /\ OthersIdle

Running == pc \notin {"done", "raised", "w_raised"}

\* _handle_exit: SIGINT or SIGTERM while the loop runs
HandleExit ==
    /\ Running
    /\ stop_requested' = TRUE
    /\ UNCHANGED <<qvars, pc, urls, faults, dvars, cvars, xvars, wvars, idx, batch_size,
                   html_files, txt_files, results, fetch, steps, doc, data,
                   attempted, succeeded, removed,
                   n_peeks, last_peek, n_deletes, last_delete>>

\* while not _stop_requested
LoopHead ==
    /\ pc = "head"
    /\ pc' = IF stop_requested THEN "done" ELSE "read"
    /\ UNCHANGED <<qvars, urls, faults, dvars, cvars, xvars, wvars, lvars>>

\* Every non-empty peek but those whose delete_urls call failed is followed
\* by the removal of a record or by the end of the call: more peeks than
\* this are never made.
PeekCap == NumUrls + MaxFaults + MaxDiscoveries + MaxInvocations

\* urls = list(read_urls(limit=batch_size)); if not urls: break
LoopRead ==
    /\ pc = "read"
    /\ n_peeks <= PeekCap
    /\ \E f \in Faults :
          /\ f = "none" \/ faults < MaxFaults
          /\ faults' = IF f = "none" THEN faults ELSE faults + 1
          /\ \E r \in ReadUrlsResults(db, batch_size, f) :
                IF r.raised
                THEN /\ pc' = "raised"
                     /\ UNCHANGED <<urls, idx, n_peeks, last_peek>>
                ELSE /\ urls' = r.ret
                     /\ idx' = 1
                     /\ pc' = IF r.ret = <<>> THEN "done" ELSE "item"
                     /\ n_peeks' = IF r.ret = <<>> THEN n_peeks ELSE n_peeks + 1
                     /\ last_peek' = IF r.ret = <<>> THEN last_peek ELSE r.ret
    /\ UNCHANGED <<qvars, dvars, cvars, xvars, wvars, stop_requested, batch_size,
                   html_files, txt_files, results, fetch, steps, doc, data,
                   attempted, succeeded, removed,
                   n_deletes, last_delete>>

\* for url in urls: if _stop_requested: break; else the decorated
\* get_job_details_from_url is called
LoopItem ==
    /\ pc = "item"
    /\ IF idx > Len(urls) \/ BreakRequested(stop_requested)
       THEN pc' = "delete" /\ UNCHANGED wvars
       ELSE WrapperEnter
    /\ UNCHANGED <<qvars, urls, faults, dvars, cvars, xvars, lvars>>

LoopRetryTest ==
    /\ WrapperTest
    /\ UNCHANGED <<qvars, urls, faults, dvars, cvars, xvars, lvars>>

\* One invocation of get_job_details_from_url(url, job_id, ...) inside the
\* wrapper's try statement.
LoopFetch ==
    /\ pc = "w_call"
    /\ \E o \in FetchOutcomes, j \in 0..JitterMax :
          /\ WrapperTry(FuncOutcome(o), j)
          /\ attempted' = attempted \cup {urls[idx]}
          /\ fetch' = o
          /\ steps' = Steps(o)
          /\ html_files' = IF "write_html" \in Range(Steps(o))
                           THEN html_files \cup {JobId(urls[idx])} ELSE html_files
          /\ txt_files' = IF "write_txt" \in Range(Steps(o))
                          THEN txt_files \cup {JobId(urls[idx])} ELSE txt_files
          /\ succeeded' = IF o = "ok" THEN succeeded \cup {urls[idx]} ELSE succeeded
          /\ results' = IF o = "ok" THEN [results EXCEPT ![urls[idx]] = "record"]
                        ELSE IF o = "not_found"
                        THEN [results EXCEPT ![urls[idx]] = "sentinel"]
                        ELSE results
    /\ UNCHANGED <<qvars, urls, faults, dvars, cvars, xvars, stop_requested, idx, batch_size,
                   removed, n_peeks, last_peek, n_deletes, last_delete, doc, data>>

LoopRetryWake ==
    /\ WrapperWake
    /\ UNCHANGED <<qvars, urls, faults, dvars, cvars, xvars, lvars>>

\* The wrapper's frame is gone once its call has returned.
WrapperLeave ==
    /\ retries' = 0
    /\ calls' = 0
    /\ n_retryable' = 0
    /\ last_outcome' = "none"
    /\ sleeps' = <<>>
    /\ exc' = NoException
    /\ retval' = NoValue

\* An item removed from the queue as soon as its call has returned.
RowsAfterItemRemoved(rows, u) == DeleteWhere(rows, u)

\* The table after an item was handled: the for loop only prints.
RowsAfterItem(rows, u) == rows

\* The call returned `details`: print them, next URL.
LoopNextItem ==
    /\ pc = "w_returned"
    /\ WrapperLeave
    /\ fetch' = "none"
    /\ steps' = <<>>
    /\ idx' = idx + 1
    /\ pc' = "item"
    /\ db' = RowsAfterItem(db, urls[idx])
    /\ UNCHANGED <<call, urls, faults, dvars, cvars, xvars, stop_requested,
                   batch_size, html_files, txt_files, results, attempted, succeeded,
                   removed, n_peeks, last_peek, n_deletes, last_delete, doc, data>>

\* try: delete_urls of the batch; except Exception: print
LoopDelete ==
    /\ pc = "delete"
    /\ \E f \in Faults :
          /\ f = "none" \/ faults < MaxFaults
          /\ faults' = IF f = "none" THEN faults ELSE faults + 1
          /\ LET r == DeleteUrlsResult(db, DeleteArgs(urls, idx), f)
             IN  /\ db' = r.rows
                 /\ removed' = removed \cup (Range(db) \ Range(r.rows))
    /\ n_deletes' = n_deletes + 1
    /\ last_delete' = DeleteArgs(urls, idx)
    /\ pc' = "head"
    /\ UNCHANGED <<call, urls, dvars, cvars, xvars, wvars, stop_requested, idx, batch_size,
                   html_files, txt_files, results, fetch, steps, doc, data,
                   attempted, succeeded, n_peeks,
                   last_peek>>

Next ==
    \/ HandleExit
    \/ LoopHead
    \/ LoopRead
    \/ LoopItem
    \/ LoopRetryTest
    \/ LoopFetch
    \/ LoopRetryWake
    \/ LoopNextItem
    \/ LoopDelete

Spec == Init /\ [][Next]_vars

\* C2: every URL the loop has removed from the queue had been processed
\* in full (fetched, extracted, both artifacts written) before.
C2_RemovedOnlyAfterSuccess == removed \subseteq succeeded

\* C3: every URL the loop has removed from the queue had its fetch attempted
\* at least once before, wherever the stop signal arrived.
C3_RemovedOnlyAfterFetch == removed \subseteq attempted

\* The for loop over the current batch is running or was left by break.
InBatch == pc \in {"item", "w_test", "w_call", "w_sleep", "w_returned", "delete"}

\* C4 as stated: whenever a non-empty batch is over, also when it ended with
\* a fetch that failed for good, delete_urls was called with all its URLs.
C4_DeleteAfterEveryBatch ==
    (pc \in {"head", "done", "raised", "w_raised"}) =>
        /\ n_deletes = n_peeks
        /\ (n_peeks > 0) => last_delete = last_peek

\* C4 amended: delete_urls is called with all URLs of a non-empty batch once
\* its items were handled (record or 404 sentinel returned) or skipped for a
\* stop request; when the call for an item raises, the exception leaves the
\* loop and delete_urls is not called for that batch.
C4_DeleteUnlessRaised ==
    /\ (pc \in {"head", "done", "raised"}) =>
          /\ n_deletes = n_peeks
          /\ (n_peeks > 0) => last_delete = last_peek
    /\ (InBatch \/ pc = "w_raised") =>
          /\ n_deletes = n_peeks - 1
          /\ urls = last_peek

\* C4 witness: a batch of two deleted as a whole, its first URL answered
\* with 404 and its second skipped because of a stop request.
C4_Witness ==
    /\ pc = "head"
    /\ n_deletes = 1
    /\ Len(last_peek) = 2
    /\ last_delete = last_peek
    /\ results[last_peek[1]] = "sentinel"
    /\ last_peek[2] \notin attempted
    /\ stop_requested

\* The spec's terminal fetch: a 4xx status other than 429 (rate limit).
TerminalStatus(code) == code \in 400..499 /\ code # 429

\* The spec's transient fetch: no response (network, connection, timeout)
\* or a 5xx status.
TransientOutcome(o) == o = "connection_error" \/ StatusCode(o) \in 500..599

\* C11: a fetch answered with a terminal 4xx status (403 as well as 404) is
\* not repeated: the call returns right after it, with the sentinel record
\* as the item's result, so that the loop goes on to delete the batch.
C11_TerminalFetchNotRetried ==
    (fetch # "none" /\ TerminalStatus(StatusCode(fetch))) =>
        /\ pc = "w_returned"
        /\ retval = [kind |-> "value", call |-> calls]
        /\ results[urls[idx]] = "sentinel"

\* C12: a fetch that failed with a connection error or a 5xx status is
\* attempted again as long as fewer than 3 attempts were made, and the
\* error is raised to the caller only by the third attempt.
C12_TransientFetchRetried ==
    (fetch # "none" /\ TransientOutcome(fetch)) =>
        IF calls < ScraperMaxRetries
        THEN pc \in {"w_sleep", "w_test", "w_call"}
        ELSE pc = "w_raised" /\ exc.call = calls

\* C13: the invocation whose fetch is answered with 404 makes that one
\* fetch, completes no other statement (no extraction, neither artifact
\* written), and its sentinel is what the call returns at once (no sleep,
\* no further invocation).
C13_NotFoundShortCircuit ==
    [][ (calls' = calls + 1 /\ fetch' = "not_found") =>
            /\ steps' = <<"get">>
            /\ html_files' = html_files
            /\ txt_files' = txt_files
            /\ pc' = "w_returned"
            /\ retval' = [kind |-> "value", call |-> calls + 1]
            /\ results' = [results EXCEPT ![urls[idx]] = "sentinel"]
            /\ sleeps' = sleeps ]_vars

\* C13 witness: the first fetch of a URL answered with 404, nothing written.
C13_Witness ==
    /\ pc = "w_returned"
    /\ fetch = "not_found"
    /\ calls = 1
    /\ results[urls[idx]] = "sentinel"
    /\ JobId(urls[idx]) \notin (html_files \cup txt_files)

\* C15: a failed write of the raw HTML or of the text dump does not end the
\* batch: the call for the item returns a result that shows the failure and
\* the loop goes on.
C15_WriteFailureBestEffort ==
    (fetch \in {"html_write_error", "txt_write_error"}) =>
        /\ pc = "w_returned"
        /\ results[urls[idx]] # "none"

\* C16 as stated: once the flag is set no item is started and no batch is
\* peeked any more.
C16_NoWorkAfterStop ==
    [][ stop_requested =>
            /\ ~(pc = "item" /\ pc' = "w_test")
            /\ ~(pc = "read" /\ pc' # "read") ]_vars

\* C16 amended: a while test or an item test that sees the flag set starts
\* no batch and no item; with the flag set the loop never gets to read_urls
\* again, so at most the one peek whose while test came before the signal
\* still happens; the signal handler changes nothing but the flag, and the
\* call in flight stays in the wrapper until it returns or raises.
C16_StopSeenAtChecks ==
    [][ /\ (stop_requested /\ pc = "head") => pc' \in {"head", "done"}
        /\ (stop_requested /\ pc = "item") => pc' \in {"item", "delete"}
        /\ (stop_requested /\ pc # "read") => pc' # "read"
        /\ (stop_requested' # stop_requested) =>
              /\ stop_requested'
              /\ pc' = pc /\ wvars' = wvars /\ fetch' = fetch /\ idx' = idx
        /\ (stop_requested /\ pc \in {"w_test", "w_call", "w_sleep"}) =>
              pc' \in {"w_test", "w_call", "w_sleep", "w_returned", "w_raised"}
      ]_vars

\* C16 witness: the flag was set while the first URL of a batch of two was
\* in flight: that URL got its record, the second one was skipped.
C16_Witness ==
    /\ stop_requested
    /\ pc = "delete"
    /\ Len(urls) = 2
    /\ idx = 2
    /\ results[urls[1]] = "record"
    /\ urls[2] \notin attempted

\* C17: a run that ends without a stop request, every URL it fetched having
\* been processed in full, leaves the queue empty and, for each URL
\* <<n, 0>> that was queued at the start, the raw and the derived artifact
\* named n, one of each per URL.
C17_EndToEnd ==
    (pc = "done" /\ ~stop_requested /\ attempted = succeeded) =>
        /\ db = <<>>
        /\ succeeded = enqueued
        /\ html_files = { u[1] : u \in enqueued }
        /\ txt_files = { u[1] : u \in enqueued }
        /\ Cardinality(html_files) = Cardinality(enqueued)
        /\ Cardinality(txt_files) = Cardinality(enqueued)

\* C17 witness: two URLs, read as one batch, both processed, queue empty.
C17_Witness ==
    /\ pc = "done"
    /\ ~stop_requested
    /\ faults = 0
    /\ Cardinality(enqueued) = 2
    /\ n_peeks = 1
    /\ db = <<>>
    /\ html_files = {1, 2}
    /\ txt_files = {1, 2}

\* C25: when the delete_urls call of a batch is hit by a storage failure,
\* process_all_job_urls does not raise but goes back to the head of its
\* loop, no record has left the queue, every URL of the batch is still
\* stored, and the batch is again a possible result of the next peek.
C25_DeleteFaultDegrades ==
    [][ (pc = "delete" /\ faults' > faults) =>
            /\ pc' = "head"
            /\ db' = db
            /\ removed' = removed
            /\ Range(urls) \subseteq Range(db')
            /\ urls \in SelectLimit(db', batch_size)
      ]_vars

\* C25 witness: the delete_urls call of the first batch failed and took
\* nothing out; the second peek returned the same URLs, all of them were
\* processed once more, and the second delete_urls call is due.
C25_Witness ==
    /\ pc = "delete"
    /\ faults = 1
    /\ n_deletes = 1
    /\ removed = {}
    /\ n_peeks = 2
    /\ Range(last_peek) = Range(last_delete)
    /\ Range(urls) \subseteq succeeded
    /\ ~stop_requested

\* C27: when the call for an item has raised out of the wrapper, the loop is
\* over with the exception and delete_urls was not called for the batch:
\* every URL of the batch is still stored, those whose call had returned
\* included, and none of them was ever removed.
C27_RaiseSkipsDelete ==
    (pc = "w_raised") =>
        /\ exc # NoException
        /\ urls = last_peek
        /\ n_deletes = n_peeks - 1
        /\ Range(urls) \subseteq Range(db)
        /\ Range(urls) \cap removed = {}

\* C27 witness: the first URL of a batch was processed in full, the call
\* for the second raised; the first is still in the queue.
C27_Witness ==
    /\ pc = "w_raised"
    /\ idx = 2
    /\ urls[1] \in succeeded
    /\ JobId(urls[1]) \in txt_files
    /\ urls[1] \in Range(db)
    /\ urls[2] \in Range(db)

-----------------------------------------------------------------------------
(* SpecLive: process_all_job_urls as in Spec, on a queue no other process  *)
(* writes to and with no storage fault, each statement of the loop being   *)
(* completed in finite time: the interpreter goes on, a fetch returns or   *)
(* raises, time.sleep returns.  A signal may arrive or not.                *)

LiveInit ==
    /\ db \in { q \in SeqsUpTo(URLS, NumUrls) : IncreasingIds(q) }
    /\ call = NoCall
    /\ pc = "head"
    /\ urls = <<>>
    /\ faults = MaxFaults
    /\ limit = 0
    /\ visits = <<>>
    /\ enqueued = Range(db)
    /\ max_retries = ScraperMaxRetries
    /\ base_delay = ScraperBaseDelay
    /\ max_delay = DefaultMaxDelay
    /\ exceptions_to_retry = {"HTTPError"}
    /\ WrapperIdle
    /\ stop_requested = FALSE
    /\ idx = 0
    /\ batch_size \in 1..MaxBatchSize
    /\ html_files = {}
    /\ txt_files = {}
    /\ results = [u \in URLS |-> "none"]
    /\ attempted = {}
    /\ succeeded = {}
    /\ removed = {}
    /\ n_peeks = 0
    /\ last_peek = <<>>
    /\ n_deletes = 0
    /\ last_delete = <<>>
    /\ fetch = "none"
    /\ steps = <<>>
    /\ doc = NoDoc
    /\ data = NoData
    /\ OthersIdle

LiveNext ==
    \/ HandleExit
    \/ LoopHead
    \/ LoopRead
    \/ LoopItem
    \/ LoopRetryTest
    \/ LoopFetch
    \/ LoopRetryWake
    \/ LoopNextItem
    \/ LoopDelete

Progress ==
    /\ WF_vars(LoopHead)
    /\ WF_vars(LoopRead)
    /\ WF_vars(LoopItem)
    /\ WF_vars(LoopRetryTest)
    /\ WF_vars(LoopFetch)
    /\ WF_vars(LoopRetryWake)
    /\ WF_vars(LoopNextItem)
    /\ WF_vars(LoopDelete)

SpecLive == LiveInit /\ [][LiveNext]_vars /\ Progress

\* The loop was left by `break` after an empty peek.
StoppedEmpty == pc = "done" /\ urls = <<>> /\ db = <<>>

\* The loop was left because the while test saw the stop flag.
StoppedBySignal == pc = "done" /\ stop_requested

\* An exception raised while an item was processed left the loop.
StoppedByException == pc = "w_raised" /\ exc # NoException

\* The bound on the peeks never keeps the loop from reading.
PeekCapNotReached == (pc = "read") => n_peeks <= PeekCap

\* C26 as stated: process_all_job_urls eventually stops because a peek
\* returned no URL or because shutdown was requested.
C26_StopsEmptyOrSignal == <>(StoppedEmpty \/ StoppedBySignal)

\* C26 amended: process_all_job_urls eventually stops, and when it has
\* stopped, a peek returned no URL, or shutdown was requested, or an
\* exception raised while an item was processed went to the caller.
C26_Terminates ==
    /\ <>(~Running)
    /\ [](~Running => (StoppedEmpty \/ StoppedBySignal \/ StoppedByException))

\* C26 witness: no stop request, a first batch processed and removed, then
\* an item of the next batch raised and ended the loop with URLs left.
C26_Witness ==
    /\ StoppedByException
    /\ ~stop_requested
    /\ n_deletes >= 1
    /\ removed # {}
    /\ db # <<>>

-----------------------------------------------------------------------------
(* SpecShared: process_all_job_urls while the discovery process, another   *)
(* process on the same database file, enqueues URLs with write_batch       *)
(* between the peek of a batch and its delete_urls call.  No storage       *)
(* fault.                                                                  *)

\* write_batch([u]) of the discovery process while a batch is worked on
Discover(u) ==
    /\ InBatch
    /\ Len(discovered) < MaxDiscoveries
    /\ db' = WriteBatchResult(db, <<u>>, "none").rows
    /\ discovered' = Append(discovered, u)
    /\ UNCHANGED <<call, pc, urls, faults, dvars, cvars, wvars, lvars, txn, reader,
                   invocation>>

SharedNext ==
    \/ \E u \in URLS : Discover(u)
    \/ HandleExit
    \/ LoopHead
    \/ LoopRead
    \/ LoopItem
    \/ LoopRetryTest
    \/ LoopFetch
    \/ LoopRetryWake
    \/ LoopNextItem
    \/ LoopDelete

SpecShared == LiveInit /\ [][SharedNext]_vars

\* C28: the delete_urls call that ends a batch is made with the URLs the
\* peek of this iteration returned, and every record that leaves the queue
\* with it is one of them, whatever the discovery process has enqueued in
\* the meantime.
C28_DeletesOnlyPeeked ==
    [][ (pc = "delete" /\ pc' = "head") =>
            /\ urls = last_peek
            /\ last_delete' = urls
            /\ Range(db) \ Range(db') \subseteq Range(urls)
            /\ removed' \ removed \subseteq Range(urls)
      ]_vars

\* C28 witness: a URL that was not in the queue at the start was enqueued
\* while the first batch was worked on; the batch was removed and this URL
\* is still stored.
C28_Witness ==
    /\ pc = "head"
    /\ n_peeks = 1
    /\ n_deletes = 1
    /\ removed # {}
    /\ \E u \in Range(discovered) :
          /\ u \notin enqueued
          /\ u \in Range(db)
          /\ u \notin Range(last_delete)

-----------------------------------------------------------------------------
(* SpecAgain: process_all_job_urls called again and again in one process,  *)
(* each call after the one before has returned or raised.  No storage      *)
(* fault.                                                                  *)

\* `_stop_requested = False` at the start of process_all_job_urls.
FlagResetAtEntry(flag) == FALSE

\* `global _stop_requested` and no assignment: the flag is what it was.
FlagAtEntry(flag) == flag

\* process_all_job_urls(...) is called once more
CallAgain ==
    /\ ~Running
    /\ invocation.n < MaxInvocations
    /\ invocation' = [n |-> invocation.n + 1, stopped |-> stop_requested]
    /\ stop_requested' = FlagAtEntry(stop_requested)
    /\ pc' = "head"
    /\ urls' = <<>>
    /\ idx' = 0
    /\ fetch' = "none"
    /\ steps' = <<>>
    /\ WrapperLeave
    /\ UNCHANGED <<qvars, faults, dvars, cvars, batch_size, html_files, txt_files,
                   results, attempted, succeeded, removed, n_peeks, last_peek,
                   n_deletes, last_delete, doc, data, txn, reader, discovered>>

AgainNext ==
    \/ CallAgain
    \/ HandleExit
    \/ LoopHead
    \/ LoopRead
    \/ LoopItem
    \/ LoopRetryTest
    \/ LoopFetch
    \/ LoopRetryWake
    \/ LoopNextItem
    \/ LoopDelete

SpecAgain == LiveInit /\ [][AgainNext]_vars

\* C29: the stop flag, once set, stays set, also when process_all_job_urls
\* is called again; a call made after the flag was set only tests the flag
\* and returns: it reads no batch, calls nothing for an item, writes no
\* file and removes no record.
C29_StopFlagSticks ==
    [][ /\ stop_requested => stop_requested'
        /\ (invocation.stopped /\ invocation' = invocation) =>
               /\ pc \in {"head", "done"}
               /\ pc' \in {"head", "done"}
               /\ db' = db
               /\ urls' = <<>>
               /\ n_peeks' = n_peeks
               /\ n_deletes' = n_deletes
               /\ attempted' = attempted
               /\ html_files' = html_files
               /\ txt_files' = txt_files
               /\ removed' = removed
      ]_vars

\* C29 witness: a signal stopped the first call with URLs left in the
\* queue; the second call has returned and the URLs are still there.
C29_Witness ==
    /\ invocation.n = 2
    /\ invocation.stopped
    /\ pc = "done"
    /\ db # <<>>
    /\ n_peeks = 1
    /\ n_deletes = 1

-----------------------------------------------------------------------------
(* linkedin_scraper.py: the extraction of one response body                *)
(* A text is a sequence of characters: 0 is a space, 2 a newline, 1 a      *)
(* letter.  An li item or a text node is 0 when its cleaned text is empty  *)
(* and a positive number naming its cleaned text otherwise.                *)

MaxTextLen == 2
MaxChildren == 4

IsSpace(c) == c \in {0, 2}

RECURSIVE LStrip(_)
LStrip(s) == IF s # <<>> /\ IsSpace(Head(s)) THEN LStrip(Tail(s)) ELSE s

RECURSIVE RStrip(_)
RStrip(s) ==
    IF s # <<>> /\ IsSpace(s[Len(s)]) THEN RStrip(SubSeq(s, 1, Len(s) - 1)) ELSE s

\* re.sub(r"\s+", " ", s)
RECURSIVE CollapseSpaces(_)
CollapseSpaces(s) ==
    IF s = <<>> THEN <<>>
    ELSE IF IsSpace(Head(s)) THEN <<0>> \o CollapseSpaces(LStrip(s))
    ELSE <<Head(s)>> \o CollapseSpaces(Tail(s))

\* _clean_text: re.sub(r"\s+", " ", s).strip()
CleanText(s) == RStrip(LStrip(CollapseSpaces(s)))

\* None, and a str value
PyNone == [present |-> FALSE, text |-> <<>>]

Str(t) == [present |-> TRUE, text |-> t]

Texts(n) == SeqsUpTo({0, 1, 2}, n)

\* An element the selectors look for: missing, or there with its get_text().
OptionalElements(n) == {PyNone} \cup { Str(t) : t \in Texts(n) }

\* The direct children of the description markup (rich.contents).
Strong(h) == [tag |-> "strong", header |-> h, text |-> 0, items |-> <<>>]

Ul(items) == [tag |-> "ul", header |-> "", text |-> 0, items |-> items]

TextNode(t) == [tag |-> "text", header |-> "", text |-> t, items |-> <<>>]

HeaderTexts == {"Responsibilities", "What We Offer", "Requirements:", "About Us"}

Lists == { <<1, 2, 3>>, <<4, 5>>, <<0, 6>>, <<>> }

Nodes ==
    { Strong(h) : h \in HeaderTexts } \cup { Ul(l) : l \in Lists }
        \cup { TextNode(t) : t \in {0, 8} }

\* The li items of the first ul that follows the description markup in the
\* document (the job criteria list, for instance); <<>> when there is none.
Afters == { <<>>, <<7>> }

\* soup: the h1, the company element, the children of the description
\* markup and what follows the markup.
Docs(maxText, maxChildren) ==
    { [kind |-> "soup", h1 |-> h, company |-> c, children |-> <<>>, after |-> <<>>] :
        h \in OptionalElements(maxText), c \in OptionalElements(maxText) }
    \cup
    { [kind |-> "soup", h1 |-> PyNone, company |-> PyNone, children |-> ch, after |-> a] :
        ch \in SeqsUpTo(Nodes, maxChildren), a \in Afters }

\* text.lower() with the trailing ":", "-" removed, then _clean_text
LowerStripped(h) ==
    CASE h = "Responsibilities" -> "responsibilities"
      [] h = "What We Offer" -> "what we offer"
      [] h = "Requirements:" -> "requirements"
      [] h = "About Us" -> "about us"
      [] OTHER -> ""

\* SECTION_ALIASES.get(t, t)
SECTION_ALIASES(t) ==
    CASE t = "what you'll do" -> "responsibilities"
      [] t = "responsibilities" -> "responsibilities"
      [] t = "what we look for" -> "qualifications"
      [] t = "requirements" -> "qualifications"
      [] t = "qualifications" -> "qualifications"
      [] t = "what we offer" -> "benefits"
      [] t = "benefits" -> "benefits"
      [] OTHER -> t

normalize_header(h) == SECTION_ALIASES(LowerStripped(h))

\* items = [x for x in items if x]
NonEmptyItems(items) == SelectSeq(items, LAMBDA x : x # 0)

\* node.find_next(ul): the first ul after the node in document order,
\* wherever it stands: behind later headers, or behind the markup.
FindNextUl(children, k, after) ==
    LET js == { j \in (k + 1)..Len(children) : children[j].tag = "ul" }
    IN  IF js = {} THEN after
        ELSE children[CHOOSE j \in js : \A i \in js : j <= i].items

\* The chunk a node gives to the summary: its text, "" for a blank one.
NodeText(node) ==
    IF node.tag = "ul" THEN NonEmptyItems(node.items)
    ELSE IF node.text = 0 THEN <<>> ELSE <<node.text>>

\* for node in rich.contents: one pass of the loop body per call.
\* current = "" stands for current_header None or "" (both false).
RECURSIVE Traverse(_, _, _, _, _, _)
Traverse(children, after, k, sections, current, chunks) ==
    IF k > Len(children) THEN [sections |-> sections, chunks |-> chunks]
    ELSE LET node == children[k] IN
         IF node.tag = "strong"
         THEN LET key == normalize_header(node.header)
                  items == NonEmptyItems(FindNextUl(children, k, after))
              IN  Traverse(children, after, k + 1,
                           Append(sections, [key |-> key, items |-> items]),
                           key, chunks)
         ELSE IF node.tag = "ul" /\ current # ""
         THEN LET n == Len(sections)
                  more == NonEmptyItems(node.items)
              IN  Traverse(children, after, k + 1,
                           [sections EXCEPT ![n].items = @ \o more],
                           current, chunks)
         ELSE IF sections = <<>> /\ NodeText(node) # <<>>
         THEN Traverse(children, after, k + 1, sections, current,
                       Append(chunks, NodeText(node)))
         ELSE Traverse(children, after, k + 1, sections, current, chunks)

\* for key, items in sections: result[key] = items (the last one stays)
SectionItems(sections, key) ==
    LET ks == { k \in 1..Len(sections) : sections[k].key = key }
    IN  IF ks = {} THEN <<>>
        ELSE sections[CHOOSE k \in ks : \A i \in ks : i <= k].items

_extract_description_sections(children, after) ==
    LET t == Traverse(children, after, 1, <<>>, "", <<>>)
    IN  [summary |-> t.chunks,
         responsibilities |-> SectionItems(t.sections, "responsibilities"),
         qualifications |-> SectionItems(t.sections, "qualifications"),
         benefits |-> SectionItems(t.sections, "benefits")]

\* title = _clean_text(title_tag.get_text()) if title_tag else None, and the
\* same for the company element
CleanedOrNone(el) == IF el.present THEN Str(CleanText(el.text)) ELSE PyNone

\* get_job_details_from_url, lines 296-335: the record `data`
JobData(d) ==
    LET desc == _extract_description_sections(d.children, d.after)
    IN  [kind |-> "data",
         title |-> CleanedOrNone(d.h1),
         company |-> CleanedOrNone(d.company),
         summary |-> desc.summary,
         responsibilities |-> desc.responsibilities,
         qualifications |-> desc.qualifications,
         benefits |-> desc.benefits]

ExtractInit ==
    /\ doc \in Docs(MaxTextLen, MaxChildren)
    /\ data = NoData
    /\ pc = "parsed"
    /\ db = <<>>
    /\ call = NoCall
    /\ urls = <<>>
    /\ faults = 0
    /\ DrainIdle /\ ConfigIdle /\ WrapperIdle /\ OthersIdle
    /\ stop_requested = FALSE
    /\ idx = 0
    /\ batch_size = 0
    /\ html_files = {}
    /\ txt_files = {}
    /\ results = [u \in URLS |-> "none"]
    /\ attempted = {}
    /\ succeeded = {}
    /\ removed = {}
    /\ n_peeks = 0
    /\ last_peek = <<>>
    /\ n_deletes = 0
    /\ last_delete = <<>>
    /\ fetch = "none"
    /\ steps = <<>>

\* soup = BeautifulSoup(html_content) is there; build `data` from it
Extract ==
    /\ pc = "parsed"
    /\ data' = JobData(doc)
    /\ pc' = "extracted"
    /\ UNCHANGED <<qvars, urls, faults, dvars, cvars, xvars, wvars, stop_requested, idx,
                   batch_size, html_files, txt_files, results, attempted, succeeded,
                   removed, n_peeks, last_peek, n_deletes, last_delete, fetch, steps,
                   doc>>

ExtractNext == Extract

SpecExtract == ExtractInit /\ [][ExtractNext]_vars

RecognizedKeys == {"responsibilities", "qualifications", "benefits"}

\* Positions of the strong nodes whose normalized header is key.
HeadersOf(ch, key) ==
    { k \in 1..Len(ch) : ch[k].tag = "strong" /\ normalize_header(ch[k].header) = key }

\* The children are a header followed by a list, repeated; every li has text.
HeaderThenList(ch) ==
    /\ Len(ch) % 2 = 0
    /\ \A k \in 1..Len(ch) :
          IF k % 2 = 1 THEN ch[k].tag = "strong"
          ELSE ch[k].tag = "ul" /\ NonEmptyItems(ch[k].items) = ch[k].items

\* C18: for a description made of a header followed by a list, repeated,
\* with no section named twice, each recognized section holds one string
\* per item of the list after its header, and a recognized section without
\* header is empty.
C18_OneStringPerItem ==
    (pc = "extracted" /\ HeaderThenList(doc.children)
        /\ \A key \in RecognizedKeys : Cardinality(HeadersOf(doc.children, key)) <= 1) =>
        \A key \in RecognizedKeys :
            LET hs == HeadersOf(doc.children, key)
            IN  IF hs = {} THEN data[key] = <<>>
                ELSE \A k \in hs : Len(data[key]) = Len(doc.children[k + 1].items)

\* No ul stands between child k and the next strong (or the end).
NoListBeforeNextHeader(ch, k) ==
    \A j \in (k + 1)..Len(ch) :
        ch[j].tag = "ul" => \E i \in (k + 1)..(j - 1) : ch[i].tag = "strong"

\* C19: a recognized section whose header has no list before the next
\* header gets no items, whatever lists stand further down.
C19_NoLaterListAbsorbed ==
    (pc = "extracted") =>
        \A key \in RecognizedKeys :
            LET hs == HeadersOf(doc.children, key)
            IN  (Cardinality(hs) = 1
                    /\ \A k \in hs : NoListBeforeNextHeader(doc.children, k)) =>
                data[key] = <<>>

\* C20: title and company of the record are None or a string that is not
\* empty and is whitespace-normalized.
C20_TitleCompanyNeverEmpty ==
    (pc = "extracted") =>
        /\ data.title # Str(<<>>)
        /\ data.company # Str(<<>>)
        /\ data.title.text = CleanText(data.title.text)
        /\ data.company.text = CleanText(data.company.text)

-----------------------------------------------------------------------------
(* linkedin_scraper.py: _extract_job_criteria, one li of the criteria list *)
(* per step.  A value text is a sequence of parts, each with the separator *)
(* that precedes it ("" for the first): <<P("", 1), P(" and ", 2)>> is     *)
(* "one and two".  Part 0 is an empty part, as in "one,".                  *)

MaxCriteria == 2

P(sep, part) == [sep |-> sep, part |-> part]

CriteriaValues ==
    { <<>>,
      <<P("", 1)>>,
      <<P("", 1), P(" and ", 2)>>,
      <<P("", 1), P(",", 2), P("/", 3)>>,
      <<P("", 1), P(",", 0)>> }

\* get_text() of the h3 subheader, cleaned; "" also stands for a li
\* without subheader.
CriteriaHeaders ==
    { "", "Seniority level", "Employment type", "Job function", "Industries",
      "EMPLOYMENT TYPE", "Seniority and employment", "Job function, industry",
      "Location" }

\* htext.lower()
Lower(h) ==
    CASE h = "Seniority level" -> "seniority level"
      [] h = "Employment type" -> "employment type"
      [] h = "Job function" -> "job function"
      [] h = "Industries" -> "industries"
      [] h = "EMPLOYMENT TYPE" -> "employment type"
      [] h = "Seniority and employment" -> "seniority and employment"
      [] h = "Job function, industry" -> "job function, industry"
      [] h = "Location" -> "location"
      [] OTHER -> h

\* `word in key`, for the four words the function looks for
Contains(key, word) ==
    CASE word = "seniority" -> key \in {"seniority level", "seniority and employment"}
      [] word = "employment" -> key \in {"employment type", "seniority and employment"}
      [] word = "job function" -> key \in {"job function", "job function, industry"}
      [] word = "industr" -> key \in {"industries", "job function, industry"}
      [] OTHER -> FALSE

CriteriaEntries == { [header |-> h, value |-> v] : h \in CriteriaHeaders, v \in CriteriaValues }

\* The chunks of v between the separators of seps, each chunk starting
\* with separator "".
RECURSIVE SplitOn(_, _)
SplitOn(v, seps) ==
    IF v = <<>> THEN <<>>
    ELSE LET rest == SplitOn(Tail(v), seps)
             first == P("", Head(v).part)
         IN  IF Len(v) > 1 /\ v[2].sep \notin seps
             THEN <<(<<first, v[2]>> \o Tail(Head(rest)))>> \o Tail(rest)
             ELSE <<(<<first>>)>> \o rest

\* x.strip() is not empty
NotBlank(chunk) == \E k \in 1..Len(chunk) : chunk[k].part # 0

\* vtext or None
ValueOrNone(v) == IF v = <<>> THEN PyNone ELSE Str(v)

\* [x.strip() for x in vtext.split(" and ") if x.strip()] if vtext else []
JobFunctions(v) == SelectSeq(SplitOn(v, {" and "}), NotBlank)

\* [p.strip() for p in re.split(r",|/| and ", vtext) if p.strip()]
Industries(v) == SelectSeq(SplitOn(v, {",", "/", " and "}), NotBlank)

\* out, before the loop
CriteriaOut ==
    [kind |-> "criteria", seniority_level |-> PyNone, employment_type |-> PyNone,
     job_functions |-> <<>>, industries |-> <<>>]

\* The if / elif chain tested from "industr" upwards.
ClassifyIndustryFirst(out, e) ==
    LET key == Lower(e.header)
    IN  IF e.header = "" THEN out
        ELSE IF Contains(key, "industr")
        THEN [out EXCEPT !.industries = Industries(e.value)]
        ELSE IF Contains(key, "job function")
        THEN [out EXCEPT !.job_functions = JobFunctions(e.value)]
        ELSE IF Contains(key, "employment")
        THEN [out EXCEPT !.employment_type = ValueOrNone(e.value)]
        ELSE IF Contains(key, "seniority")
        THEN [out EXCEPT !.seniority_level = ValueOrNone(e.value)]
        ELSE out

\* The body of `for li in ul.select(...)` for one li
Classify(out, e) ==
    LET key == Lower(e.header)
    IN  IF e.header = "" THEN out
        ELSE IF Contains(key, "seniority")
        THEN [out EXCEPT !.seniority_level = ValueOrNone(e.value)]
        ELSE IF Contains(key, "employment")
        THEN [out EXCEPT !.employment_type = ValueOrNone(e.value)]
        ELSE IF Contains(key, "job function")
        THEN [out EXCEPT !.job_functions = JobFunctions(e.value)]
        ELSE IF Contains(key, "industr")
        THEN [out EXCEPT !.industries = Industries(e.value)]
        ELSE out

CriteriaDocs(n) == { [kind |-> "criteria", items |-> es] : es \in SeqsUpTo(CriteriaEntries, n) }

CriteriaInit ==
    /\ doc \in CriteriaDocs(MaxCriteria)
    /\ data = CriteriaOut
    /\ pc = "criteria"
    /\ idx = 1
    /\ db = <<>>
    /\ call = NoCall
    /\ urls = <<>>
    /\ faults = 0
    /\ DrainIdle /\ ConfigIdle /\ WrapperIdle /\ OthersIdle
    /\ stop_requested = FALSE
    /\ batch_size = 0
    /\ html_files = {}
    /\ txt_files = {}
    /\ results = [u \in URLS |-> "none"]
    /\ attempted = {}
    /\ succeeded = {}
    /\ removed = {}
    /\ n_peeks = 0
    /\ last_peek = <<>>
    /\ n_deletes = 0
    /\ last_delete = <<>>
    /\ fetch = "none"
    /\ steps = <<>>

\* One pass of the for loop; `return out` after the last li.
CriteriaItem ==
    /\ pc = "criteria"
    /\ IF idx > Len(doc.items)
       THEN pc' = "criteria_done" /\ UNCHANGED <<data, idx>>
       ELSE /\ data' = Classify(data, doc.items[idx])
            /\ idx' = idx + 1
            /\ pc' = pc
    /\ UNCHANGED <<qvars, urls, faults, dvars, cvars, xvars, wvars, stop_requested,
                   batch_size, html_files, txt_files, results, attempted, succeeded,
                   removed, n_peeks, last_peek, n_deletes, last_delete, fetch, steps,
                   doc>>

CriteriaNext == CriteriaItem

SpecCriteria == CriteriaInit /\ [][CriteriaNext]_vars

CriteriaWords == <<"seniority", "employment", "job function", "industr">>

CriteriaFields == <<"seniority_level", "employment_type", "job_functions", "industries">>

\* The positions of CriteriaWords found in the lower-cased header.
Matches(h) == { k \in 1..4 : Contains(Lower(h), CriteriaWords[k]) }

\* C21: a li with a non-empty header sets the one field of the first word,
\* in the order seniority, employment, job function, industr, found in its
\* lower-cased header, and no other field; a li whose header is empty or
\* holds none of the words changes nothing.
C21_ClassifiedOnce ==
    [][ (pc = "criteria" /\ idx <= Len(doc.items)) =>
            LET e == doc.items[idx]
                ms == Matches(e.header)
            IN  IF e.header = "" \/ ms = {}
                THEN data' = data
                ELSE LET k == CHOOSE i \in ms : \A j \in ms : i <= j
                     IN  /\ \A j \in 1..4 :
                               j # k => data'[CriteriaFields[j]] = data[CriteriaFields[j]]
                         /\ data'[CriteriaFields[k]] =
                               CASE k = 1 -> ValueOrNone(e.value)
                                 [] k = 2 -> ValueOrNone(e.value)
                                 [] k = 3 -> JobFunctions(e.value)
                                 [] OTHER -> Industries(e.value)
      ]_vars

\* C21 witness: a header holding two of the words went to the first of
\* them only, and a header holding none of them left the record alone.
C21_Witness ==
    /\ pc = "criteria_done"
    /\ Len(doc.items) = 2
    /\ doc.items[1].header = "Job function, industry"
    /\ doc.items[1].value = <<P("", 1), P(",", 2), P("/", 3)>>
    /\ doc.items[2].header = "Location"
    /\ doc.items[2].value # <<>>
    /\ Len(data.job_functions) = 1
    /\ data.industries = <<>>

-----------------------------------------------------------------------------
(* SpecTxn: urls_db.py used by two processes on one database file.  One    *)
(* process runs write_batch / delete_urls calls; its executemany runs one  *)
(* statement per URL inside the transaction sqlite3 opens before the first *)
(* of them, and conn.commit() ends it.  The other process runs read_urls   *)
(* calls and takes the rows of its SELECT one by one.                      *)

\* What a SELECT of another connection reads while transaction t is open:
\* the rows as of the last commit.
SnapshotDirty(rows, t) == IF t.op = "none" THEN rows ELSE t.rows

Snapshot(rows, t) == rows

TxnInit ==
    /\ db = <<>>
    /\ call = NoCall
    /\ pc = "client"
    /\ urls = <<>>
    /\ faults = 0
    /\ txn = NoTxn
    /\ reader = NoReader
    /\ discovered = <<>>
    /\ invocation = FirstCall
    /\ DrainIdle /\ ConfigIdle /\ WrapperIdle /\ LoopIdle

\* conn = _init_db(); executemany is entered
TxnBegin(op, us) ==
    /\ txn = NoTxn
    /\ us # <<>>
    /\ txn' = [op |-> op, args |-> us, done |-> 0, rows |-> db]
    /\ UNCHANGED <<qvars, pc, urls, faults, dvars, cvars, wvars, lvars, reader,
                   discovered, invocation>>

\* executemany runs the statement for its next parameter row
TxnStatement ==
    /\ txn.op # "none"
    /\ txn.done < Len(txn.args)
    /\ txn' = [txn EXCEPT
                 !.done = @ + 1,
                 !.rows = IF txn.op = "write_batch"
                          THEN InsertOrIgnore(@, txn.args[txn.done + 1])
                          ELSE DeleteWhere(@, txn.args[txn.done + 1])]
    /\ UNCHANGED <<qvars, pc, urls, faults, dvars, cvars, wvars, lvars, reader,
                   discovered, invocation>>

\* conn.commit()
TxnCommit ==
    /\ txn.op # "none"
    /\ txn.done = Len(txn.args)
    /\ db' = txn.rows
    /\ txn' = NoTxn
    /\ UNCHANGED <<call, pc, urls, faults, dvars, cvars, wvars, lvars, reader,
                   discovered, invocation>>

\* sqlite3.Error out of executemany or commit: the failure is logged and
\* conn.close() drops the transaction.
TxnRollback ==
    /\ txn.op # "none"
    /\ txn' = NoTxn
    /\ UNCHANGED <<qvars, pc, urls, faults, dvars, cvars, wvars, lvars, reader,
                   discovered, invocation>>

\* read_urls(lim): conn.execute("SELECT url FROM urls LIMIT ?")
ReaderSelect(lim) ==
    /\ ~reader.open
    /\ \E r \in SelectLimit(Snapshot(db, txn), lim) :
          reader' = [lim |-> lim, rows |-> r, n |-> 0, open |-> TRUE,
                     mid |-> /\ txn.op # "none"
                             /\ txn.done > 0
                             /\ txn.done < Len(txn.args)
                             /\ txn.rows # db]
    /\ UNCHANGED <<qvars, pc, urls, faults, dvars, cvars, wvars, lvars, txn,
                   discovered, invocation>>

\* for row in cur: yield row[0]
ReaderYield ==
    /\ reader.open
    /\ reader.n < Len(reader.rows)
    /\ reader' = [reader EXCEPT !.n = @ + 1]
    /\ UNCHANGED <<qvars, pc, urls, faults, dvars, cvars, wvars, lvars, txn,
                   discovered, invocation>>

\* the cursor is exhausted: finally conn.close()
ReaderClose ==
    /\ reader.open
    /\ reader.n = Len(reader.rows)
    /\ reader' = NoReader
    /\ UNCHANGED <<qvars, pc, urls, faults, dvars, cvars, wvars, lvars, txn,
                   discovered, invocation>>

TxnNext ==
    \/ \E us \in SeqsUpTo(URLS, MaxBatchLen) : TxnBegin("write_batch", us)
    \/ \E us \in SeqsUpTo(URLS, MaxBatchLen) : TxnBegin("delete_urls", us)
    \/ TxnStatement
    \/ TxnCommit
    \/ TxnRollback
    \/ \E lim \in 0..MaxLimit : ReaderSelect(lim)
    \/ ReaderYield
    \/ ReaderClose

SpecTxn == TxnInit /\ [][TxnNext]_vars

\* The table after every statement of the batch of transaction t has run.
WholeBatch(rows, t) ==
    IF t.op = "write_batch" THEN WriteBatchResult(rows, t.args, "none").rows
    ELSE IF t.op = "delete_urls" THEN DeleteUrlsResult(rows, t.args, "none").rows
    ELSE rows

\* C24: while one process runs write_batch and delete_urls calls, the table
\* other connections read changes only from its content before a batch to
\* its content after every statement of that batch, and what a read_urls
\* call of the other process returns is a selection from the table as it
\* was before the batch under way or as it is after the whole of it.
C24_BatchAtomic ==
    [][ /\ db' # db => (txn.op # "none" /\ db' = WholeBatch(db, txn))
        /\ (reader'.open /\ ~reader.open) =>
               reader'.rows \in SelectLimit(db, reader'.lim)
                                 \cup SelectLimit(WholeBatch(db, txn), reader'.lim)
        /\ (reader'.open /\ reader.open) => reader'.rows = reader.rows
      ]_vars

\* C24 witness: the SELECT ran while a batch had run some of its statements
\* but not all, and these had changed the table; all its rows were taken.
C24_Witness ==
    /\ reader.open
    /\ reader.mid
    /\ reader.n = Len(reader.rows)
    /\ reader.lim > Len(reader.rows)

=============================================================================
